---- MODULE Spec2Model ----
(***************************************************************************)
(* State-machine model of app.py: a Streamlit application in which a user  *)
(* registers / logs in, uploads documents, trains a retrieval index and    *)
(* chats with it, every answered question being stored in a SQL table.     *)
(*                                                                         *)
(* Every user interaction re-runs the whole script from the top; each      *)
(* action below is one such script run for one browser session.            *)
(***************************************************************************)
EXTENDS Integers, Sequences, FiniteSets, TLC

(* ------------------------------ bounds -------------------------------- *)
MaxFiles == 2        \* files in the uploader at once
MaxMessages == 2     \* transcript entries per session
MaxQueries == 2      \* rows in the queries table

Sessions == {"s1", "s2"}
Usernames == {"alice", "bob"}
Passwords == {"pw1", "pw2"}
Salts == {"saltA", "saltB"}
FileNames == {"a.pdf", "b.csv", "c.docx", "d.xlsx"}

\* Python None and an object reference, as an option value.
None == <<>>
Some(v) == <<v>>

(* --------------------------- pure helpers ----------------------------- *)

\* bcrypt.hashpw(password, salt): the salt is kept in the hash next to a
\* digest of (salt, password).
Hashpw(password, salt) == [salt |-> salt, digest |-> <<salt, password>>]

\* bcrypt.checkpw(password, hashed): re-hash with the stored salt, compare.
Checkpw(password, hashed) == Hashpw(password, hashed.salt) = hashed

\* uploaded_file.name.split(".")[-1].lower()
Ext(name) ==
    CASE name = "a.pdf" -> "pdf"
      [] name = "b.csv" -> "csv"
      [] name = "c.docx" -> "docx"
      [] name = "d.xlsx" -> "xlsx"

\* An uploaded file: its name and whether its bytes can be parsed.
Files == [name : FileNames, ok : BOOLEAN]

\* A Document, tagged with the upload it was extracted from; one per file.
Document(f) == [source |-> f.name]

Msg(text, about) == [text |-> text, about |-> about]

\* One iteration of the loop over uploaded_files.  acc.raised is set when a
\* loader raises outside any try block: the script run ends there.
IngestOne(f, acc) ==
    LET named == [acc EXCEPT !.filenames = Append(@, f.name)]
    IN  IF Ext(f.name) \in {"pdf", "csv", "docx"}
        THEN IF f.ok
             THEN [named EXCEPT !.docs = Append(@, Document(f))]
             ELSE [named EXCEPT !.raised = TRUE,
                                !.msgs = Append(@, Msg("Unhandled exception", f.name))]
        ELSE IF f.ok
             THEN [named EXCEPT !.docs = Append(@, Document(f))]
             ELSE [named EXCEPT !.msgs = Append(@, Msg("Error reading Excel", f.name))]

RECURSIVE IngestFrom(_, _)
IngestFrom(files, acc) ==
    IF files = <<>> \/ acc.raised THEN acc
    ELSE IngestFrom(Tail(files), IngestOne(Head(files), acc))

\* The ingestion loop of tab1 over the files the uploader holds.
Ingest(files) ==
    IngestFrom(files, [docs |-> <<>>, filenames |-> <<>>, msgs |-> <<>>, raised |-> FALSE])

(* ------------------------------- state -------------------------------- *)
VARIABLES
    users,           \* table users: rows [id, username, password]
    queries,         \* table queries: rows [id, question, answer, timestamp, user_id]
    clock,           \* datetime.utcnow() at the last insert into queries
    session_state,   \* st.session_state of each session: a dict, key -> value
    uploaded_files,  \* files held by the st.file_uploader widget of each session
    ev               \* the last script run: session, action, inputs, what it displayed

vars == <<users, queries, clock, session_state, uploaded_files, ev>>

Event(s, action, args, msgs) == [sess |-> s, action |-> action, args |-> args, msgs |-> msgs]

Init ==
    /\ users = <<>>
    /\ queries = <<>>
    /\ clock = 0
    /\ session_state = [s \in Sessions |-> <<>>]
    /\ uploaded_files = [s \in Sessions |-> <<>>]
    /\ ev = Event("none", "start", <<>>, <<>>)

\* Dict operations on one session's st.session_state.
Has(ss, k) == k \in DOMAIN ss
Set(ss, k, v) == (k :> v) @@ ss
Del(ss, k) == [j \in DOMAIN ss \ {k} |-> ss[j]]
SetDefault(ss, k, v) == IF Has(ss, k) THEN ss ELSE Set(ss, k, v)

(* --------------------------- credential store ------------------------- *)

\* db.query(User).filter(User.username == username).first()
FindUser(username) ==
    LET hits == {i \in 1..Len(users) : users[i].username = username}
    IN  IF hits = {} THEN None
        ELSE Some(users[CHOOSE i \in hits : \A j \in hits : i <= j])

\* Mutant: the username column without its unique constraint.
RegisterNeverRaises(username) == FALSE

\* The unique constraint on users.username makes db.commit() raise.
RegisterRaises(username) == \E i \in 1..Len(users) : users[i].username = username

\* register_user(username, password): the table after db.add and db.commit.
RegisterUser(username, password, salt) ==
    Append(users, [id |-> Len(users) + 1, username |-> username,
                   password |-> Hashpw(password, salt)])

\* Mutant: the row is returned without checking the password.
AuthenticateAnyPassword(username, password) == FindUser(username)

\* authenticate(username, password): the User row, or None.
Authenticate(username, password) ==
    LET found == FindUser(username)
    IN  IF found # None /\ Checkpw(password, found[1].password) THEN found ELSE None

(* ------------------------------ query log ----------------------------- *)

\* db.add(Query(question, answer, user_id)); db.commit(), timestamp = utcnow.
AddQuery(question, answer, user_id, now) ==
    Append(queries, [id |-> Len(queries) + 1, question |-> question, answer |-> answer,
                     timestamp |-> now, user_id |-> user_id])

\* Mutant: the rows ordered oldest first.
RECURSIVE OrderByTimestampAsc(_)
OrderByTimestampAsc(rows) ==
    IF rows = {} THEN <<>>
    ELSE LET low == CHOOSE r \in rows : \A o \in rows : r.timestamp <= o.timestamp
         IN  <<low>> \o OrderByTimestampAsc(rows \ {low})

\* order_by(Query.timestamp.desc()) over a set of rows.
RECURSIVE OrderByTimestampDesc(_)
OrderByTimestampDesc(rows) ==
    IF rows = {} THEN <<>>
    ELSE LET top == CHOOSE r \in rows : \A o \in rows : o.timestamp <= r.timestamp
         IN  <<top>> \o OrderByTimestampDesc(rows \ {top})

\* db.query(Query).filter(Query.user_id == user_id).order_by(timestamp desc).all()
History(user_id) ==
    OrderByTimestampDesc({queries[i] : i \in {j \in 1..Len(queries) : queries[j].user_id = user_id}})

(* ------------------------- session handlers --------------------------- *)

LoggedIn(s) == Has(session_state[s], "user")

\* Lines 98-104: defaults for the keys that are not in st.session_state.
InitDefaults(ss) ==
    SetDefault(SetDefault(SetDefault(ss, "qa", None), "messages", <<>>),
               "uploaded_files_info", <<>>)

\* Sidebar, "Register" branch.
Register(s, username, password, salt) ==
    /\ ~LoggedIn(s)
    /\ IF RegisterRaises(username)
       THEN /\ UNCHANGED users
            /\ ev' = Event(s, "register", <<username, password>>,
                           <<Msg("Username might already exist.", "")>>)
       ELSE /\ users' = RegisterUser(username, password, salt)
            /\ ev' = Event(s, "register", <<username, password>>,
                           <<Msg("Registration successful. Please login.", "")>>)
    /\ UNCHANGED <<queries, clock, session_state, uploaded_files>>

\* Sidebar, "Login" branch; on success st.rerun() runs lines 98-104.
Login(s, username, password) ==
    /\ ~LoggedIn(s)
    /\ LET found == Authenticate(username, password)
       IN  IF found # None
           THEN /\ session_state' = [session_state EXCEPT
                                       ![s] = InitDefaults(Set(@, "user", found[1]))]
                /\ ev' = Event(s, "login", <<username, password>>,
                               <<Msg("Logged in as", found[1].username)>>)
           ELSE /\ UNCHANGED session_state
                /\ ev' = Event(s, "login", <<username, password>>,
                               <<Msg("Invalid credentials.", "")>>)
    /\ UNCHANGED <<users, queries, clock, uploaded_files>>

\* The session's st.session_state after the "Logout" button.
LogoutState(ss) == Del(ss, "user")

\* Sidebar, "Logout" button: del st.session_state.user; st.rerun().  The
\* rerun renders no tab, so the uploader widget loses its files.
Logout(s) ==
    /\ LoggedIn(s)
    /\ session_state' = [session_state EXCEPT ![s] = LogoutState(@)]
    /\ uploaded_files' = [uploaded_files EXCEPT ![s] = <<>>]
    /\ ev' = Event(s, "logout", <<>>, <<>>)
    /\ UNCHANGED <<users, queries, clock>>

\* The rest of a script run in which the uploader holds `files` and no
\* button is pressed: the ingestion loop runs over them.
Rerun(s, action, files) ==
    /\ uploaded_files' = [uploaded_files EXCEPT ![s] = files]
    /\ ev' = Event(s, action, <<>>, Ingest(files).msgs)
    /\ UNCHANGED <<users, queries, clock, session_state>>

\* The user adds a file to the uploader (names are distinct).
Upload(s, f) ==
    /\ LoggedIn(s)
    /\ Len(uploaded_files[s]) < MaxFiles
    /\ \A i \in 1..Len(uploaded_files[s]) : uploaded_files[s][i].name # f.name
    /\ Rerun(s, "upload", Append(uploaded_files[s], f))

\* The user takes the i-th file out of the uploader.
RemoveUpload(s, i) ==
    /\ LoggedIn(s)
    /\ i \in 1..Len(uploaded_files[s])
    /\ Rerun(s, "remove", SubSeq(uploaded_files[s], 1, i - 1)
                          \o SubSeq(uploaded_files[s], i + 1, Len(uploaded_files[s])))

\* tab1 is rendered down to the Train button, and the later tabs are reached.
TabsReached(s) == LoggedIn(s) /\ ~Ingest(uploaded_files[s]).raised

\* RetrievalQA over a FAISS index of the docs.
Chain(docs) == Some([docs |-> docs])

\* FAISS.from_documents raises on an empty list of documents.
IndexRaises(docs) == docs = <<>>

\* Lines 150-151: the two assignments that end a successful train.
TrainDone(ss, ing) ==
    [ss EXCEPT !.qa = Chain(ing.docs), !.uploaded_files_info = ing.filenames]

\* Mutant: the file list is assigned before the calls that may raise.
TrainFailedAfterAssign(ss, ing) == [ss EXCEPT !.uploaded_files_info = ing.filenames]

\* The session state when lines 147-150 raise: nothing was assigned yet.
TrainFailed(ss, ing) == ss

\* "Train" button: the ingestion loop, then lines 144-154.
Train(s) ==
    /\ TabsReached(s)
    /\ uploaded_files[s] # <<>>
    /\ LET ing == Ingest(uploaded_files[s])
       IN  \E service \in {"ok", "error"} :
             IF service = "error" \/ IndexRaises(ing.docs)
             THEN /\ session_state' = [session_state EXCEPT ![s] = TrainFailed(@, ing)]
                  /\ ev' = Event(s, "train", <<>>,
                                 ing.msgs \o <<Msg("Embedding error", "")>>)
             ELSE /\ session_state' = [session_state EXCEPT ![s] = TrainDone(@, ing)]
                  /\ ev' = Event(s, "train", <<>>,
                                 ing.msgs \o <<Msg("Training complete", "")>>)
    /\ UNCHANGED <<users, queries, clock, uploaded_files>>

UserMessage(prompt) == [role |-> "user", content |-> prompt]
AssistantMessage(response) == [role |-> "assistant", content |-> response]

\* Mutant: the prompt is appended outside the `if st.session_state.qa` gate.
AskUntrainedAppends(ss, prompt) == [ss EXCEPT !.messages = Append(@, UserMessage(prompt))]

\* tab2 with no chain (line 189): only the notice is shown.
AskUntrained(ss, prompt) == ss

\* Line 168: the prompt joins the transcript before the try block.
AskPrompt(ss, prompt) == [ss EXCEPT !.messages = Append(@, UserMessage(prompt))]

\* Line 177: the response joins the transcript before the insert.
AskResponse(ss, response) == [ss EXCEPT !.messages = Append(@, AssistantMessage(response))]

\* qa.run may raise, and so may db.commit.
Outcomes == {"ok", "qa_error", "db_error"}

\* tab2: a prompt is sent to the chat input.
Ask(s, prompt, outcome, response) ==
    /\ TabsReached(s)
    /\ LET ss == session_state[s]
           shown == Ingest(uploaded_files[s]).msgs
       IN  IF ss.qa = None
           THEN /\ session_state' = [session_state EXCEPT ![s] = AskUntrained(ss, prompt)]
                /\ ev' = Event(s, "ask", <<prompt>>,
                               shown \o <<Msg("Please train the documents first", "")>>)
                /\ UNCHANGED <<queries, clock>>
           ELSE /\ Len(ss.messages) + 2 <= MaxMessages
                /\ CASE outcome = "qa_error" ->
                            /\ session_state' = [session_state EXCEPT
                                                   ![s] = AskPrompt(ss, prompt)]
                            /\ ev' = Event(s, "ask", <<prompt>>,
                                           shown \o <<Msg("Failed to respond", "")>>)
                            /\ UNCHANGED <<queries, clock>>
                       [] outcome = "db_error" ->
                            /\ session_state' = [session_state EXCEPT
                                  ![s] = AskResponse(AskPrompt(ss, prompt), response)]
                            /\ ev' = Event(s, "ask", <<prompt>>,
                                           shown \o <<Msg(response, ""),
                                                      Msg("Failed to respond", "")>>)
                            /\ UNCHANGED <<queries, clock>>
                       [] outcome = "ok" ->
                            /\ Len(queries) < MaxQueries
                            /\ session_state' = [session_state EXCEPT
                                  ![s] = AskResponse(AskPrompt(ss, prompt), response)]
                            \* utcnow is later than at every earlier insert
                            /\ \E now \in {clock + 1, clock + 2} :
                                 /\ clock' = now
                                 /\ queries' = AddQuery(prompt, response, ss.user.id, now)
                            /\ ev' = Event(s, "ask", <<prompt>>,
                                           shown \o <<Msg(response, "")>>)
    /\ UNCHANGED <<users, uploaded_files>>

\* tab3: the rows shown under "Your Chat History".
ViewHistory(s) ==
    /\ TabsReached(s)
    /\ ev' = Event(s, "history", <<>>,
                   [i \in 1..Len(History(session_state[s].user.id)) |->
                      Msg(History(session_state[s].user.id)[i].question,
                          History(session_state[s].user.id)[i].answer)])
    /\ UNCHANGED <<users, queries, clock, session_state, uploaded_files>>

\* tab4: the names shown under "Last Trained Document List".
ViewTrainedDocs(s) ==
    /\ TabsReached(s)
    /\ ev' = Event(s, "trained_docs", <<>>,
                   [i \in 1..Len(session_state[s].uploaded_files_info) |->
                      Msg("file", session_state[s].uploaded_files_info[i])])
    /\ UNCHANGED <<users, queries, clock, session_state, uploaded_files>>

\* One script run, with the inputs drawn from the universe U.
NextIn(U) ==
    \/ \E s \in U.sessions, n \in U.usernames, p \in U.passwords, salt \in U.salts :
          Register(s, n, p, salt)
    \/ \E s \in U.sessions, n \in U.usernames, p \in U.passwords : Login(s, n, p)
    \/ \E s \in U.sessions : Logout(s)
    \/ \E s \in U.sessions, f \in U.files : Upload(s, f)
    \/ \E s \in U.sessions, i \in 1..MaxFiles : RemoveUpload(s, i)
    \/ \E s \in U.sessions : Train(s)
    \/ \E s \in U.sessions, x \in U.exchanges, o \in Outcomes : Ask(s, x[1], o, x[2])
    \/ \E s \in U.sessions : ViewHistory(s)
    \/ \E s \in U.sessions : ViewTrainedDocs(s)

GoodPdf == [name |-> "a.pdf", ok |-> TRUE]

\* Two sessions and two accounts sharing the tables; one readable document.
Shared ==
    [sessions |-> Sessions, usernames |-> Usernames, passwords |-> {"pw1"},
     salts |-> {"saltA"}, files |-> {GoodPdf},
     exchanges |-> {<<"q1", "a1">>, <<"q2", "a2">>}]

\* One session and one account; every file, readable or not.
Documents ==
    [sessions |-> {"s1"}, usernames |-> {"alice"}, passwords |-> {"pw1"},
     salts |-> {"saltA"}, files |-> Files, exchanges |-> {<<"q1", "a1">>}]

Next == NextIn(Shared)
Spec == Init /\ [][Next]_vars

NextDocs == NextIn(Documents)
SpecDocs == Init /\ [][NextDocs]_vars

\* The sidebar alone: accounts, passwords and salts, from two sessions.
NextAuth ==
    \/ \E s \in Sessions, n \in Usernames, p \in Passwords, salt \in Salts :
          Register(s, n, p, salt)
    \/ \E s \in Sessions, n \in Usernames, p \in Passwords : Login(s, n, p)
    \/ \E s \in Sessions : Logout(s)
SpecAuth == Init /\ [][NextAuth]_vars
(* ------------------------------ properties ---------------------------- *)

Range(f) == {f[i] : i \in DOMAIN f}
Reverse(q) == [i \in 1..Len(q) |-> q[Len(q) + 1 - i]]
Trained(s) == LoggedIn(s) /\ session_state[s].qa # None
Untrained(s) == LoggedIn(s) /\ session_state[s].qa = None
Notice == Msg("Please train the documents first", "")
Failed == Msg("Failed to respond", "")
\* The step is a script run of session s for the given action.
Ran(s, action) == ev'.sess = s /\ ev'.action = action

\* C1: in every state a logged-out session holds no index, an empty
\* transcript and an empty trained-file list, so the next login starts
\* Untrained with an empty transcript.
C1_LogoutDiscardsSessionState ==
    \A s \in Sessions :
        ~LoggedIn(s) =>
            LET ss == session_state[s]
            IN  /\ Has(ss, "qa") => ss.qa = None
                /\ Has(ss, "messages") => ss.messages = <<>>
                /\ Has(ss, "uploaded_files_info") => ss.uploaded_files_info = <<>>

\* C2: an ask by a session that is logged in with no index shows the
\* "train first" notice, adds no row to the queries table and leaves the
\* session state, transcript included, as it was.
C2_UntrainedAskRejected ==
    [][\A s \in Sessions :
          (Untrained(s) /\ Ran(s, "ask")) =>
              /\ Notice \in Range(ev'.msgs)
              /\ queries' = queries
              /\ session_state'[s] = session_state[s]]_vars

\* C2 witness: an ask was rejected in an untrained session that already has
\* files in the uploader, while the queries table holds rows.
C2_Witness ==
    /\ ev.action = "ask"
    /\ Notice \in Range(ev.msgs)
    /\ Untrained(ev.sess)
    /\ uploaded_files[ev.sess] # <<>>
    /\ queries # <<>>

\* C3: no script run over the uploaded files ends in an unhandled exception,
\* and every file whose extraction fails is reported by a message of its own.
C3_ExtractionFailureIsolated ==
    ev.action \in {"upload", "remove", "train"} =>
        /\ \A m \in Range(ev.msgs) : m.text # "Unhandled exception"
        /\ \A i \in 1..Len(uploaded_files[ev.sess]) :
              ~uploaded_files[ev.sess][i].ok =>
                  \E m \in Range(ev.msgs) :
                      /\ m.about = uploaded_files[ev.sess][i].name
                      /\ m.text # "Unhandled exception"

\* C4: an ask in a trained session that fails leaves the session state
\* (transcript included) and the queries table exactly as they were.
C4_FailedAskLeavesState ==
    [][\A s \in Sessions :
          (Trained(s) /\ Ran(s, "ask") /\ Failed \in Range(ev'.msgs)) =>
              /\ session_state'[s] = session_state[s]
              /\ queries' = queries]_vars

\* C5: in a trained session the transcript gains a question/answer pair
\* exactly when the queries table gains one row with that question and
\* answer owned by the logged-in user.
C5_AnswerRecordedInBoth ==
    [][\A s \in Sessions :
          (Trained(s) /\ Ran(s, "ask")) =>
              LET old == session_state[s].messages
                  new == session_state'[s].messages
                  pair == /\ Len(new) = Len(old) + 2
                          /\ SubSeq(new, 1, Len(old)) = old
                          /\ new[Len(new) - 1].role = "user"
                          /\ new[Len(new)].role = "assistant"
                  row == /\ Len(queries') = Len(queries) + 1
                         /\ SubSeq(queries', 1, Len(queries)) = queries
              IN  /\ pair <=> row
                  /\ ~pair => new = old
                  /\ row => /\ queries'[Len(queries')].question = new[Len(new) - 1].content
                            /\ queries'[Len(queries')].answer = new[Len(new)].content
                            /\ queries'[Len(queries')].user_id = session_state[s].user.id]_vars

\* C6: a train that fails leaves the session state as it was: the index and
\* the trained-file list built before stay, an untrained session stays
\* untrained with an empty trained-file list.
C6_FailedTrainLeavesState ==
    [][\A s \in Sessions :
          (Ran(s, "train") /\ Msg("Embedding error", "") \in Range(ev'.msgs)) =>
              session_state' = session_state]_vars

\* C6 witness: a train has failed in a session that keeps an index built
\* from other files than the ones now in the uploader.
C6_Witness ==
    /\ ev.action = "train"
    /\ Msg("Embedding error", "") \in Range(ev.msgs)
    /\ Trained(ev.sess)
    /\ session_state[ev.sess].uploaded_files_info # Ingest(uploaded_files[ev.sess]).filenames

\* The rows of one user in the order they were appended.
AppendedFor(user_id) == SelectSeq(queries, LAMBDA r : r.user_id = user_id)

UniqueUsernames ==
    \A i, j \in 1..Len(users) : users[i].username = users[j].username => i = j

\* C8: no two rows of users share a username; a register for a username
\* that exists is refused and leaves the table as it was; a register never
\* logs the session in.
C8_RegisterKeepsUsernamesUnique ==
    /\ []UniqueUsernames
    /\ [][\A s \in Sessions :
             Ran(s, "register") =>
                 /\ (\E i \in 1..Len(users) : users[i].username = ev'.args[1]) =>
                        /\ users' = users
                        /\ ev'.msgs = <<Msg("Username might already exist.", "")>>
                 /\ session_state' = session_state
                 /\ ~Has(session_state'[s], "user")]_vars

\* C8 witness: a register was refused for the username of an account that
\* is logged in from the other session.
C8_Witness ==
    /\ ev.action = "register"
    /\ ev.msgs = <<Msg("Username might already exist.", "")>>
    /\ \E s \in Sessions \ {ev.sess} :
          LoggedIn(s) /\ session_state[s].user.username = ev.args[1]

\* The supplied password verifies against the stored hash of a row with the
\* supplied username.
Verifies(username, password) ==
    \E i \in 1..Len(users) :
        /\ users[i].username = username
        /\ users[i].password.digest = <<users[i].password.salt, password>>

\* C9: a login logs the session in only as a user whose username was given
\* and whose stored hash the given password verifies; every other login,
\* unknown username or wrong password alike, shows the one message "Invalid
\* credentials." and leaves the session logged out and unchanged.
C9_AuthenticateOnlyOnMatch ==
    [][\A s \in Sessions :
          Ran(s, "login") =>
              IF Verifies(ev'.args[1], ev'.args[2])
              THEN /\ Has(session_state'[s], "user")
                   /\ session_state'[s].user.username = ev'.args[1]
              ELSE /\ ev'.msgs = <<Msg("Invalid credentials.", "")>>
                   /\ session_state' = session_state
                   /\ ~Has(session_state'[s], "user")]_vars

\* C9 witness: a login with the wrong password for an existing username was
\* refused.
C9_Witness ==
    /\ ev.action = "login"
    /\ ev.msgs = <<Msg("Invalid credentials.", "")>>
    /\ FindUser(ev.args[1]) # None
    /\ ~LoggedIn(ev.sess)

\* C10: the trained-file list of a trained session is the list of the
\* files that contributed a document to its index, in upload order.
C10_TrainedFilesAreExtractedFiles ==
    \A s \in Sessions :
        Trained(s) =>
            LET docs == session_state[s].qa[1].docs
            IN  session_state[s].uploaded_files_info = [i \in 1..Len(docs) |-> docs[i].source]
====
